---------------------------- MODULE Spec2Model ----------------------------
(***************************************************************************)
(* C-Volley (src/blobby_volley.c): the per-frame update UpdateGame and the *)
(* helpers it calls, as a state machine with one step per frame.           *)
(*                                                                         *)
(* Numbers.  The program computes in float.  Here every length and every   *)
(* velocity is an integer number of TENTHS of a pixel (per frame): all the *)
(* increments the players and gravity use (4.0, 3.2, 2.4, 0.8, 0.4, 12.0,  *)
(* 10.8) are whole tenths.  The products of the net and player-ball        *)
(* collisions (0.9, 0.95, 0.7, 0.5, the unit normal) are rounded to the    *)
(* nearest tenth.  Particle life is the float the program holds, as an     *)
(* integer number of units of 2^-29, with float's rounding (24 significant *)
(* bits, ties to even) after every subtraction.  creditsScroll is in whole *)
(* pixels.                                                                 *)
(***************************************************************************)
EXTENDS Integers, Sequences, FiniteSets, TLC

VARIABLES gameState, gameMode, pause, framesCounter, player1, player2, ball,
          particles, aiJumpCooldown, servingSide, scoreDelayTimer,
          menuSelection, creditsScroll, shouldExitGame, matchTimer,
          ev,         \* history: what the last UpdateGame call did
          sinceScore, \* history: simulated frames since the last point that
                      \* started a serve delay (-1: none yet)
          offScript   \* environment: frames since the keys left the script

vars == <<gameState, gameMode, pause, framesCounter, player1, player2, ball,
          particles, aiJumpCooldown, servingSide, scoreDelayTimer,
          menuSelection, creditsScroll, shouldExitGame, matchTimer, ev,
          sinceScore, offScript>>

---------------------------------------------------------------------------
(* Program constants (#define), lengths in tenths of a pixel.              *)
SCREEN_WIDTH == 10240
SCREEN_HEIGHT == 7680
PLAYER_GRAVITY == 8
BALL_GRAVITY == 4
BALL_BOUNCE_DAMPING == 1
GROUND_LEVEL == SCREEN_HEIGHT - 500
PLAYER_RADIUS == 500
BALL_RADIUS == 350
PLAYER_MOVE_SPEED == 40
PLAYER_JUMP_FORCE == -120
PLAYER_MAX_VELOCITY_Y == 150
BALL_MAX_SPEED == 150
NET_X == SCREEN_WIDTH \div 2
NET_HEIGHT == 1400
NET_WIDTH == 100
WIN_SCORE == 10
TRAIL_LENGTH == 3
AI_REACTION_DISTANCE == 1500
AI_JUMP_THRESHOLD == 600
AI_POSITION_TOLERANCE == 200
AI_JUMP_COOLDOWN == 30
MAX_PARTICLES == 100
SCORE_DELAY_FRAMES == 120
\* ResetBall's serve height, 100 px
SERVE_Y == 1000
\* particle life 1.0f, in units of 2^-29
PARTICLE_LIFE == 536870912
\* the 0.02f UpdateParticles takes off: the float 0x3CA3D70A = 10737418 * 2^-29
PARTICLE_FADE == 10737418
\* particle gravity 0.3f
PARTICLE_GRAVITY == 3

---------------------------------------------------------------------------
(* Arithmetic helpers.                                                     *)
Vec(x, y) == [x |-> x, y |-> y]

Abs(a) == IF a < 0 THEN -a ELSE a

\* a / b for b > 0, rounded to the nearest integer (half away from zero)
Round(a, b) == IF a >= 0 THEN (2 * a + b) \div (2 * b)
                         ELSE -((2 * (-a) + b) \div (2 * b))

\* a / b for b > 0, rounded toward zero
Trunc(a, b) == IF a >= 0 THEN a \div b ELSE -((-a) \div b)

RECURSIVE SqrtSearch(_, _, _)
SqrtSearch(n, lo, hi) ==
    IF lo >= hi THEN lo
    ELSE LET mid == (lo + hi + 1) \div 2
         IN  IF mid * mid <= n THEN SqrtSearch(n, mid, hi)
                               ELSE SqrtSearch(n, lo, mid - 1)

\* sqrtf: the integer square root (floor)
Sqrt(n) == SqrtSearch(n, 0, 46340)

\* the weight of the last of 24 significant bits of a >= 0 (at least p)
RECURSIVE UlpOf(_, _)
UlpOf(a, p) == IF a < 16777216 * p THEN p ELSE UlpOf(a, 2 * p)

\* the float nearest to the integer n: 24 significant bits, ties to even
RoundFloat(n) ==
    LET a == Abs(n)
        p == UlpOf(a, 1)
        q == a \div p
        r == a % p
        m == IF 2 * r > p \/ (2 * r = p /\ q % 2 = 1) THEN q + 1 ELSE q
    IN  IF n < 0 THEN -(m * p) ELSE m * p

---------------------------------------------------------------------------
(* Input of one frame: the keys raylib reports (IsKeyDown for A, D, LEFT,  *)
(* RIGHT; IsKeyPressed for the others), the value GetRandomValue(0, 100)   *)
(* returns to the AI, and the draws SpawnGroundParticles makes.            *)
IsKeyDown(in, key) == key \in in.keys

IsKeyPressed(in, key) == key \in in.keys

\* history of one UpdateGame call; pushedBefore: whether the last simulated
\* frame before this call pushed the trail; sinceAiJump: the UpdateAI calls
\* since the one that last started a jump (-1: no jump yet; counted up to
\* AI_JUMP_COOLDOWN); jumpGap: in a call that starts a jump, the number of
\* UpdateAI calls from the last jump start to this one (0: it is the first);
\* jumped: the players whose jump branch UpdatePlayerControls took; jumpNo:
\* the jumps each player has started so far, by key or by the AI (counted
\* up to 2)
NoEvents == [from |-> "MENU", simulated |-> FALSE, resetBall |-> FALSE,
             hits |-> {}, scored |-> "NONE", aiJumped |-> FALSE,
             trailPushed |-> FALSE, pushedBefore |-> FALSE,
             sinceAiJump |-> -1, jumpGap |-> 0, jumped |-> {},
             jumpNo |-> [player1 |-> 0, player2 |-> 0]]

---------------------------------------------------------------------------
(* InitGame and ResetBall.                                                 *)
ResetBall(s) ==
    [s EXCEPT !.ball.position =
                  IF s.servingSide = "LEFT"
                  THEN Vec(SCREEN_WIDTH \div 4, SERVE_Y)
                  ELSE Vec((SCREEN_WIDTH * 3) \div 4, SERVE_Y),
              !.ball.velocity = Vec(0, 0),
              !.ball.trailCount = 0,
              !.ball.rotation = 0,
              !.ev.resetBall = TRUE]

\* age (history): the UpdateParticles calls the slot's particle has seen
NoParticle == [position |-> Vec(0, 0), velocity |-> Vec(0, 0),
               alpha |-> 0, life |-> 0, active |-> FALSE, age |-> 0]

InitGame ==
    ResetBall(
      [gameState |-> "MENU", gameMode |-> "SINGLE_PLAYER", pause |-> FALSE,
       framesCounter |-> 0, aiJumpCooldown |-> 0, servingSide |-> "LEFT",
       scoreDelayTimer |-> 0, menuSelection |-> 0, creditsScroll |-> 0,
       shouldExitGame |-> FALSE, matchTimer |-> 0,
       player1 |-> [position |-> Vec(SCREEN_WIDTH \div 4, GROUND_LEVEL - PLAYER_RADIUS),
                    velocity |-> Vec(0, 0), radius |-> PLAYER_RADIUS,
                    side |-> "LEFT", score |-> 0, onGround |-> TRUE],
       player2 |-> [position |-> Vec((SCREEN_WIDTH * 3) \div 4, GROUND_LEVEL - PLAYER_RADIUS),
                    velocity |-> Vec(0, 0), radius |-> PLAYER_RADIUS,
                    side |-> "RIGHT", score |-> 0, onGround |-> TRUE],
       ball |-> [position |-> Vec(0, 0), velocity |-> Vec(0, 0),
                 radius |-> BALL_RADIUS,
                 trail |-> [i \in 0 .. TRAIL_LENGTH - 1 |-> Vec(0, 0)],
                 trailCount |-> 0, rotation |-> 0],
       particles |-> [i \in 0 .. MAX_PARTICLES - 1 |-> NoParticle],
       ev |-> NoEvents, sinceScore |-> -1])

---------------------------------------------------------------------------
(* UpdatePlayerControls.                                                   *)

\* the A/D (LEFT/RIGHT) branch: the position moves and the velocity is set
MovePlayer(p, goLeft, goRight) ==
    IF goLeft
    THEN [p EXCEPT !.position.x = @ - PLAYER_MOVE_SPEED,
                   !.velocity.x = -PLAYER_MOVE_SPEED]
    ELSE IF goRight
    THEN [p EXCEPT !.position.x = @ + PLAYER_MOVE_SPEED,
                   !.velocity.x = PLAYER_MOVE_SPEED]
    ELSE [p EXCEPT !.velocity.x = 0]

\* fault: the jump key does not look at onGround
JumpPlayerInAir(p, pressed) ==
    IF pressed
    THEN [p EXCEPT !.velocity.y = PLAYER_JUMP_FORCE, !.onGround = FALSE]
    ELSE p

JumpPlayer(p, pressed) ==
    IF pressed /\ p.onGround
    THEN [p EXCEPT !.velocity.y = PLAYER_JUMP_FORCE, !.onGround = FALSE]
    ELSE p

\* history: one more jump started
CountJump(n) == IF n < 2 THEN n + 1 ELSE n

\* "Keep player on their side (left of net)"
ClampLeftSide(p) ==
    LET q == IF p.position.x - p.radius < 0
             THEN [p EXCEPT !.position.x = p.radius] ELSE p
    IN  IF q.position.x + q.radius > NET_X - NET_WIDTH \div 2
        THEN [q EXCEPT !.position.x = NET_X - NET_WIDTH \div 2 - q.radius]
        ELSE q

\* "Keep player on their side (right of net)"
ClampRightSide(p) ==
    LET q == IF p.position.x - p.radius < NET_X + NET_WIDTH \div 2
             THEN [p EXCEPT !.position.x = NET_X + NET_WIDTH \div 2 + p.radius]
             ELSE p
    IN  IF q.position.x + q.radius > SCREEN_WIDTH
        THEN [q EXCEPT !.position.x = SCREEN_WIDTH - q.radius]
        ELSE q

\* fault: player 2's keys act in both modes
UpdatePlayerControlsBothModes(s, in) ==
    LET m1 == MovePlayer(s.player1, IsKeyDown(in, "A"), IsKeyDown(in, "D"))
        j1 == JumpPlayer(m1, IsKeyPressed(in, "W"))
        m2 == MovePlayer(s.player2, IsKeyDown(in, "LEFT"), IsKeyDown(in, "RIGHT"))
        j2 == JumpPlayer(m2, IsKeyPressed(in, "UP"))
    IN  [s EXCEPT !.player1 = ClampLeftSide(j1),
                  !.player2 = ClampRightSide(j2),
                  !.ev.jumped = (IF j1 # m1 THEN {"player1"} ELSE {})
                                  \cup (IF j2 # m2 THEN {"player2"} ELSE {}),
                  !.ev.jumpNo.player1 = IF j1 # m1 THEN CountJump(@) ELSE @,
                  !.ev.jumpNo.player2 = IF j2 # m2 THEN CountJump(@) ELSE @]

\* a jump branch that is taken changes the record (onGround, velocity.y)
UpdatePlayerControls(s, in) ==
    LET m1 == MovePlayer(s.player1, IsKeyDown(in, "A"), IsKeyDown(in, "D"))
        j1 == JumpPlayer(m1, IsKeyPressed(in, "W"))
        m2 == MovePlayer(s.player2, IsKeyDown(in, "LEFT"), IsKeyDown(in, "RIGHT"))
        j2 == JumpPlayer(m2, IsKeyPressed(in, "UP"))
        two == s.gameMode = "TWO_PLAYER"
    IN  [s EXCEPT !.player1 = ClampLeftSide(j1),
                  !.player2 = IF two THEN ClampRightSide(j2) ELSE s.player2,
                  !.ev.jumped = (IF j1 # m1 THEN {"player1"} ELSE {})
                                  \cup (IF two /\ j2 # m2 THEN {"player2"} ELSE {}),
                  !.ev.jumpNo.player1 = IF j1 # m1 THEN CountJump(@) ELSE @,
                  !.ev.jumpNo.player2 = IF two /\ j2 # m2 THEN CountJump(@) ELSE @]

---------------------------------------------------------------------------
(* UpdateAI (player 2 in single-player mode).                              *)
AiCooldownTick(c) == IF c > 0 THEN c - 1 ELSE c

BallComingToward(b) ==
    (b.velocity.x > 0 /\ b.position.x < NET_X) \/ b.position.x >= NET_X

\* fault: the AI only walks back to the middle from the net side
AiReturnFromNetOnly(p) ==
    LET targetX == NET_X + (SCREEN_WIDTH - NET_X) \div 2
        q == IF p.position.x < targetX - AI_POSITION_TOLERANCE
             THEN [p EXCEPT !.position.x = @ + (PLAYER_MOVE_SPEED * 6) \div 10]
             ELSE p
    IN  [q EXCEPT !.velocity.x = 0]

\* the branch taken when the ball is not coming: go back to the middle
AiReturnToCentre(p) ==
    LET targetX == NET_X + (SCREEN_WIDTH - NET_X) \div 2
        q == IF p.position.x < targetX - AI_POSITION_TOLERANCE
             THEN [p EXCEPT !.position.x = @ + (PLAYER_MOVE_SPEED * 6) \div 10]
             ELSE IF p.position.x > targetX + AI_POSITION_TOLERANCE
             THEN [p EXCEPT !.position.x = @ - (PLAYER_MOVE_SPEED * 6) \div 10]
             ELSE p
    IN  [q EXCEPT !.velocity.x = 0]

\* "Move toward ball's X position"
AiSeekBall(p, distanceX) ==
    IF distanceX < -AI_POSITION_TOLERANCE
    THEN [p EXCEPT !.position.x = @ - (PLAYER_MOVE_SPEED * 8) \div 10,
                   !.velocity.x = -((PLAYER_MOVE_SPEED * 8) \div 10)]
    ELSE IF distanceX > AI_POSITION_TOLERANCE
    THEN [p EXCEPT !.position.x = @ + (PLAYER_MOVE_SPEED * 8) \div 10,
                   !.velocity.x = (PLAYER_MOVE_SPEED * 8) \div 10]
    ELSE [p EXCEPT !.velocity.x = 0]

\* fault: the jump does not wait for the cooldown
AiShouldJumpNoCooldown(p, b, distanceX, cooldown) ==
    LET distanceY == p.position.y - b.position.y
        horizontalDist == Abs(distanceX)
    IN  /\ horizontalDist < AI_REACTION_DISTANCE
        /\ distanceY > -AI_JUMP_THRESHOLD
        /\ distanceY < 1000
        /\ p.onGround

\* distanceX is the one computed before the move; distanceY after it
AiShouldJump(p, b, distanceX, cooldown) ==
    LET distanceY == p.position.y - b.position.y
        horizontalDist == Abs(distanceX)
    IN  /\ horizontalDist < AI_REACTION_DISTANCE
        /\ distanceY > -AI_JUMP_THRESHOLD
        /\ distanceY < 1000
        /\ cooldown = 0
        /\ p.onGround

UpdateAI(s, in) ==
    LET cd == AiCooldownTick(s.aiJumpCooldown)
        since == s.ev.sinceAiJump
        older == IF since >= 0 /\ since < AI_JUMP_COOLDOWN THEN since + 1
                                                            ELSE since
    IN  IF ~BallComingToward(s.ball)
        THEN [s EXCEPT !.aiJumpCooldown = cd,
                       !.player2 = AiReturnToCentre(s.player2),
                       !.ev.sinceAiJump = older]
        ELSE LET distanceX == s.ball.position.x - s.player2.position.x
                 p == ClampRightSide(AiSeekBall(s.player2, distanceX))
             IN  IF AiShouldJump(p, s.ball, distanceX, cd) /\ in.roll > 20
                 THEN [s EXCEPT !.aiJumpCooldown = AI_JUMP_COOLDOWN,
                                !.player2 = [p EXCEPT !.velocity.y = (PLAYER_JUMP_FORCE * 9) \div 10,
                                                      !.onGround = FALSE],
                                !.ev.aiJumped = TRUE,
                                !.ev.sinceAiJump = 0,
                                !.ev.jumpNo.player2 = CountJump(@),
                                !.ev.jumpGap = IF since < 0 THEN 0 ELSE since + 1]
                 ELSE [s EXCEPT !.aiJumpCooldown = cd, !.player2 = p,
                                !.ev.sinceAiJump = older]

---------------------------------------------------------------------------
(* UpdateBallTrail.                                                        *)
\* fault: the shift loop runs upward, so every entry gets the old trail[0]
UpdateBallTrailUpward(b) ==
    [b EXCEPT !.trail = [i \in 0 .. TRAIL_LENGTH - 1 |->
                            IF i = 0 THEN b.position ELSE b.trail[0]],
              !.trailCount = IF @ < TRAIL_LENGTH THEN @ + 1 ELSE @]

UpdateBallTrail(b) ==
    [b EXCEPT !.trail = [i \in 0 .. TRAIL_LENGTH - 1 |->
                            IF i = 0 THEN b.position ELSE b.trail[i - 1]],
              !.trailCount = IF @ < TRAIL_LENGTH THEN @ + 1 ELSE @]

---------------------------------------------------------------------------
(* Particles.                                                              *)

\* cosf and sinf of the angles the model draws, times 1000
CosMilli(angle) == CASE angle = -60 -> 500 [] angle = -90 -> 0 [] angle = -120 -> -500

SinMilli(angle) == CASE angle = -60 -> -866 [] angle = -90 -> -1000 [] angle = -120 -> -866

\* one claimed slot: draw is [angle, speed, flip], the three GetRandomValue results
\* (GetRandomValue(-60, -120), GetRandomValue(2, 6), GetRandomValue(0, 1))
NewParticle(position, draw) ==
    [position |-> position,
     velocity |-> Vec(Round(CosMilli(draw.angle) * draw.speed * 10
                              * (IF draw.flip = 1 THEN 1 ELSE -1), 1000),
                      Round(SinMilli(draw.angle) * draw.speed * 10, 1000)),
     alpha |-> PARTICLE_LIFE, life |-> PARTICLE_LIFE, active |-> TRUE,
     age |-> 0]

\* fault: the inner loop takes the last inactive slot, not the first
LastInactive(ps) ==
    LET free == {j \in 0 .. MAX_PARTICLES - 1 : ~ps[j].active}
    IN  IF free = {} THEN MAX_PARTICLES
        ELSE CHOOSE j \in free : \A k \in free : j >= k

\* the inner loop: the first inactive slot, or MAX_PARTICLES when there is none
FirstInactive(ps) ==
    LET free == {j \in 0 .. MAX_PARTICLES - 1 : ~ps[j].active}
    IN  IF free = {} THEN MAX_PARTICLES
        ELSE CHOOSE j \in free : \A k \in free : j <= k

\* the body of the outer loop: one particle goes into the first inactive
\* slot, or nowhere when there is none
SpawnOne(ps, position, draw) ==
    LET j == FirstInactive(ps)
    IN  IF j = MAX_PARTICLES THEN ps
        ELSE [ps EXCEPT ![j] = NewParticle(position, draw)]

\* the iterations lo .. hi - 1 of the outer loop, in order (the first half of
\* the range, then the second)
RECURSIVE SpawnLoop(_, _, _, _, _)
SpawnLoop(ps, position, spray, lo, hi) ==
    IF hi <= lo THEN ps
    ELSE IF hi = lo + 1
    THEN SpawnOne(ps, position, spray[(lo % Len(spray)) + 1])
    ELSE LET mid == (lo + hi) \div 2
             first == SpawnLoop(ps, position, spray, lo, mid)
         IN  IF FirstInactive(first) = MAX_PARTICLES
             THEN first    \* the pool is full: no later iteration finds a slot
             ELSE SpawnLoop(first, position, spray, mid, hi)

\* "for (i = 0; i < count && i < MAX_PARTICLES; i++)"
\* spray: the draws of the call, one per particle (used cyclically)
SpawnGroundParticles(ps, position, count, spray) ==
    SpawnLoop(ps, position, spray, 0,
              IF count < MAX_PARTICLES THEN count ELSE MAX_PARTICLES)

\* fault: a particle is only switched off when its life runs out
UpdateParticleNoFloor(q) ==
    IF ~q.active THEN q
    ELSE LET vy == q.velocity.y + PARTICLE_GRAVITY
             py == q.position.y + vy
             life == RoundFloat(q.life - PARTICLE_FADE)
         IN  [position |-> Vec(q.position.x + q.velocity.x, py),
              velocity |-> Vec(q.velocity.x, vy),
              alpha |-> life, life |-> life,
              active |-> ~(life <= 0),
              age |-> q.age + 1]

UpdateParticle(q) ==
    IF ~q.active THEN q
    ELSE LET vy == q.velocity.y + PARTICLE_GRAVITY
             py == q.position.y + vy
             life == RoundFloat(q.life - PARTICLE_FADE)
         IN  [position |-> Vec(q.position.x + q.velocity.x, py),
              velocity |-> Vec(q.velocity.x, vy),
              alpha |-> life, life |-> life,
              active |-> ~(life <= 0 \/ py > GROUND_LEVEL + 200),
              age |-> q.age + 1]

UpdateParticles(ps) == [i \in 0 .. MAX_PARTICLES - 1 |-> UpdateParticle(ps[i])]

---------------------------------------------------------------------------
(* The simulation step of UpdateGame (case PLAYING, not paused).           *)

\* "Apply physics to players", "Clamp max velocity", "Player ground collision"
PlayerPhysics(p) ==
    LET px == p.position.x + p.velocity.x
        py == p.position.y + p.velocity.y
        vy0 == p.velocity.y + PLAYER_GRAVITY
        vy == IF vy0 > PLAYER_MAX_VELOCITY_Y THEN PLAYER_MAX_VELOCITY_Y ELSE vy0
    IN  IF py + p.radius >= GROUND_LEVEL
        THEN [p EXCEPT !.position = Vec(px, GROUND_LEVEL - p.radius),
                       !.velocity.y = 0, !.onGround = TRUE]
        ELSE [p EXCEPT !.position = Vec(px, py),
                       !.velocity.y = vy, !.onGround = FALSE]

\* fault: the serve delay resets the ball one frame early
ScoreDelayTickEarly(s) ==
    IF s.scoreDelayTimer > 0
    THEN LET s1 == [s EXCEPT !.scoreDelayTimer = @ - 1]
         IN  IF s1.scoreDelayTimer <= 1 THEN ResetBall(s1) ELSE s1
    ELSE s

\* "Handle score delay timer"
ScoreDelayTick(s) ==
    IF s.scoreDelayTimer > 0
    THEN LET s1 == [s EXCEPT !.scoreDelayTimer = @ - 1]
         IN  IF s1.scoreDelayTimer = 0 THEN ResetBall(s1) ELSE s1
    ELSE s

\* "Update ball physics" and the rotation
BallPhysics(b) ==
    LET speed == Sqrt(b.velocity.x * b.velocity.x)
    IN  [b EXCEPT !.position = Vec(b.position.x + b.velocity.x,
                                   b.position.y + b.velocity.y),
                  !.velocity.y = @ + BALL_GRAVITY,
                  !.rotation = @ + Round(speed * 350, b.radius)]

\* fault: the trail is pushed in every simulated frame
TrailTickEveryFrame(s) ==
    [s EXCEPT !.ball = UpdateBallTrail(s.ball), !.ev.trailPushed = TRUE]

\* "Update trail every 2nd frame"
TrailTick(s) ==
    IF s.framesCounter % 2 = 0
    THEN [s EXCEPT !.ball = UpdateBallTrail(s.ball), !.ev.trailPushed = TRUE]
    ELSE s

\* "Ball wall collision (left and right)" and "Ball ceiling collision"
BallWalls(s) ==
    LET b0 == s.ball
        hitL == b0.position.x - b0.radius <= 0
        b1 == IF hitL
              THEN [b0 EXCEPT !.position.x = b0.radius,
                              !.velocity.x = @ * (-BALL_BOUNCE_DAMPING)]
              ELSE b0
        hitR == b1.position.x + b1.radius >= SCREEN_WIDTH
        b2 == IF hitR
              THEN [b1 EXCEPT !.position.x = SCREEN_WIDTH - b1.radius,
                              !.velocity.x = @ * (-BALL_BOUNCE_DAMPING)]
              ELSE b1
        hitC == b2.position.y - b2.radius <= 0
        b3 == IF hitC
              THEN [b2 EXCEPT !.position.y = b2.radius,
                              !.velocity.y = @ * (-BALL_BOUNCE_DAMPING)]
              ELSE b2
    IN  [s EXCEPT !.ball = b3,
                  !.ev.hits = @ \cup (IF hitL \/ hitR THEN {"wall"} ELSE {})
                                \cup (IF hitC THEN {"ceiling"} ELSE {})]

\* raylib's CheckCollisionCircleRec
CheckCollisionCircleRec(center, radius, rec) ==
    LET dx == Abs(2 * center.x - (2 * rec.x + rec.width))
        dy == Abs(2 * center.y - (2 * rec.y + rec.height))
        cx == dx - rec.width
        cy == dy - rec.height
    IN  IF dx > rec.width + 2 * radius THEN FALSE
        ELSE IF dy > rec.height + 2 * radius THEN FALSE
        ELSE IF dx <= rec.width THEN TRUE
        ELSE IF dy <= rec.height THEN TRUE
        ELSE cx * cx + cy * cy <= 4 * radius * radius

\* raylib's CheckCollisionCircles
CheckCollisionCircles(c1, r1, c2, r2) ==
    LET dx == c2.x - c1.x
        dy == c2.y - c1.y
    IN  dx * dx + dy * dy <= (r1 + r2) * (r1 + r2)

netRect == [x |-> NET_X - NET_WIDTH \div 2, y |-> GROUND_LEVEL - NET_HEIGHT,
            width |-> NET_WIDTH, height |-> NET_HEIGHT]

\* "Ball-net collision"
BallNet(s) ==
    LET b == s.ball
    IN  IF CheckCollisionCircleRec(b.position, b.radius, netRect)
        THEN [s EXCEPT !.ball.velocity = Vec(b.velocity.x * (-BALL_BOUNCE_DAMPING),
                                             Round(b.velocity.y * 9, 10)),
                       !.ball.position.x =
                           IF b.position.x < NET_X
                           THEN netRect.x - b.radius
                           ELSE netRect.x + netRect.width + b.radius,
                       !.ev.hits = @ \cup {"net"}]
        ELSE s

\* "Clamp ball speed"
ClampBallSpeed(v) ==
    LET sq == v.x * v.x + v.y * v.y
        speed == Sqrt(sq * 100)    \* in hundredths
    IN  IF sq > BALL_MAX_SPEED * BALL_MAX_SPEED
        THEN Vec(Trunc(v.x * BALL_MAX_SPEED * 10, speed),
                 Trunc(v.y * BALL_MAX_SPEED * 10, speed))
        ELSE v

\* the body of "Ball-Player collision with velocity transfer" for one player:
\* the unit normal is held times 1000
BallBounceOffPlayer(b, p) ==
    LET dx == b.position.x - p.position.x
        dy == b.position.y - p.position.y
        length == Sqrt(dx * dx + dy * dy)
        nx == IF length > 0 THEN Round(dx * 1000, length) ELSE dx * 1000
        ny == IF length > 0 THEN Round(dy * 1000, length) ELSE dy * 1000
        dotProduct == b.velocity.x * nx + b.velocity.y * ny
        rx == b.velocity.x - Round(2 * dotProduct * nx, 1000000)
        ry == b.velocity.y - Round(2 * dotProduct * ny, 1000000)
        tx == Round(rx * 95, 100) + Round(p.velocity.x * 7, 10)
        ty == Round(ry * 95, 100) + Round(p.velocity.y * 5, 10)
        uy == IF p.velocity.y < -50 THEN ty - 30 ELSE ty
    IN  [b EXCEPT !.velocity = ClampBallSpeed(Vec(tx, uy)),
                  !.position = Vec(p.position.x + Round(nx * (p.radius + b.radius), 1000),
                                   p.position.y + Round(ny * (p.radius + b.radius), 1000))]

\* one "if (scoreDelayTimer == 0 && CheckCollisionCircles(...))" block
BallPlayer(s, p, tag) ==
    IF s.scoreDelayTimer = 0
       /\ CheckCollisionCircles(s.ball.position, s.ball.radius, p.position, p.radius)
    THEN [s EXCEPT !.ball = BallBounceOffPlayer(s.ball, p),
                   !.ev.hits = @ \cup {tag}]
    ELSE s

\* "Determine which side scored", "Check win condition"
\* fault: the point goes to the side the ball landed on
ResolveScoreSwapped(s) ==
    LET s1 == IF s.ball.position.x < NET_X
              THEN [s EXCEPT !.player1.score = @ + 1, !.servingSide = "LEFT",
                             !.ev.scored = "LEFT"]
              ELSE [s EXCEPT !.player2.score = @ + 1, !.servingSide = "RIGHT",
                             !.ev.scored = "RIGHT"]
    IN  IF s1.player1.score >= WIN_SCORE \/ s1.player2.score >= WIN_SCORE
        THEN [s1 EXCEPT !.gameState = "GAMEOVER"]
        ELSE [s1 EXCEPT !.scoreDelayTimer = SCORE_DELAY_FRAMES,
                        !.sinceScore = 0]

\* fault: the win condition is "score > WIN_SCORE"
ResolveScoreLateWin(s) ==
    LET s1 == IF s.ball.position.x < NET_X
              THEN [s EXCEPT !.player2.score = @ + 1, !.servingSide = "RIGHT",
                             !.ev.scored = "RIGHT"]
              ELSE [s EXCEPT !.player1.score = @ + 1, !.servingSide = "LEFT",
                             !.ev.scored = "LEFT"]
    IN  IF s1.player1.score > WIN_SCORE \/ s1.player2.score > WIN_SCORE
        THEN [s1 EXCEPT !.gameState = "GAMEOVER"]
        ELSE [s1 EXCEPT !.scoreDelayTimer = SCORE_DELAY_FRAMES,
                        !.sinceScore = 0]

\* fault: the "else" is missing, a ball on the left gives both players a point
ResolveScoreNoElse(s) ==
    LET s1 == IF s.ball.position.x < NET_X
              THEN [s EXCEPT !.player2.score = @ + 1, !.player1.score = @ + 1,
                             !.servingSide = "LEFT", !.ev.scored = "LEFT"]
              ELSE [s EXCEPT !.player1.score = @ + 1, !.servingSide = "LEFT",
                             !.ev.scored = "LEFT"]
    IN  IF s1.player1.score >= WIN_SCORE \/ s1.player2.score >= WIN_SCORE
        THEN [s1 EXCEPT !.gameState = "GAMEOVER"]
        ELSE [s1 EXCEPT !.scoreDelayTimer = SCORE_DELAY_FRAMES,
                        !.sinceScore = 0]

ResolveScore(s) ==
    LET s1 == IF s.ball.position.x < NET_X
              THEN [s EXCEPT !.player2.score = @ + 1, !.servingSide = "RIGHT",
                             !.ev.scored = "RIGHT"]
              ELSE [s EXCEPT !.player1.score = @ + 1, !.servingSide = "LEFT",
                             !.ev.scored = "LEFT"]
    IN  IF s1.player1.score >= WIN_SCORE \/ s1.player2.score >= WIN_SCORE
        THEN [s1 EXCEPT !.gameState = "GAMEOVER"]
        ELSE [s1 EXCEPT !.scoreDelayTimer = SCORE_DELAY_FRAMES,
                        !.sinceScore = 0]

\* fault: the ground check resolves a point during the serve delay too
BallGroundScoresInDelay(s, in) ==
    IF s.ball.position.y + s.ball.radius >= GROUND_LEVEL
    THEN ResolveScore(
           [s EXCEPT !.ball.position.y = GROUND_LEVEL - s.ball.radius,
                     !.ball.velocity.y = @ * (-BALL_BOUNCE_DAMPING),
                     !.particles = SpawnGroundParticles(
                         @, Vec(s.ball.position.x, GROUND_LEVEL), 15, in.spray),
                     !.ev.hits = @ \cup {"ground"}])
    ELSE s

\* fault: the ball bounces without being put back on the ground line
BallGroundNoSnap(s, in) ==
    IF s.ball.position.y + s.ball.radius >= GROUND_LEVEL
    THEN LET s1 == [s EXCEPT !.ball.velocity.y = @ * (-BALL_BOUNCE_DAMPING),
                             !.particles = SpawnGroundParticles(
                                 @, Vec(s.ball.position.x, GROUND_LEVEL), 15, in.spray),
                             !.ev.hits = @ \cup {"ground"}]
         IN  IF s1.scoreDelayTimer = 0 THEN ResolveScore(s1) ELSE s1
    ELSE s

\* "Ball ground collision"
BallGround(s, in) ==
    IF s.ball.position.y + s.ball.radius >= GROUND_LEVEL
    THEN LET s1 == [s EXCEPT !.ball.position.y = GROUND_LEVEL - s.ball.radius,
                             !.ball.velocity.y = @ * (-BALL_BOUNCE_DAMPING),
                             !.particles = SpawnGroundParticles(
                                 @, Vec(s.ball.position.x, GROUND_LEVEL), 15, in.spray),
                             !.ev.hits = @ \cup {"ground"}]
         IN  IF s1.scoreDelayTimer = 0 THEN ResolveScore(s1) ELSE s1
    ELSE s

\* fault: the ball's collision with player 2 is resolved before player 1's
SimulatePlayer2First(s, in) ==
    LET s1 == [s EXCEPT !.matchTimer = @ + 1,
                        !.particles = UpdateParticles(@),
                        !.ev.simulated = TRUE,
                        !.sinceScore = IF @ >= 0 /\ @ <= SCORE_DELAY_FRAMES
                                       THEN @ + 1 ELSE @]
        s2 == UpdatePlayerControls(s1, in)
        s3 == IF s2.gameMode = "SINGLE_PLAYER" THEN UpdateAI(s2, in) ELSE s2
        s4 == [s3 EXCEPT !.player1 = PlayerPhysics(@), !.player2 = PlayerPhysics(@)]
        s5 == ScoreDelayTick(s4)
        s6 == TrailTick([s5 EXCEPT !.ball = BallPhysics(@)])
        s7 == BallNet(BallWalls(s6))
        s8 == BallPlayer(s7, s7.player2, "player2")
        s9 == BallPlayer(s8, s8.player1, "player1")
    IN  BallGround(s9, in)

\* fault: the simulation step does not advance the match timer
SimulateNoClock(s, in) ==
    LET s1 == [s EXCEPT !.particles = UpdateParticles(@),
                        !.ev.simulated = TRUE,
                        !.sinceScore = IF @ >= 0 /\ @ <= SCORE_DELAY_FRAMES
                                       THEN @ + 1 ELSE @]
        s2 == UpdatePlayerControls(s1, in)
        s3 == IF s2.gameMode = "SINGLE_PLAYER" THEN UpdateAI(s2, in) ELSE s2
        s4 == [s3 EXCEPT !.player1 = PlayerPhysics(@), !.player2 = PlayerPhysics(@)]
        s5 == ScoreDelayTick(s4)
        s6 == TrailTick([s5 EXCEPT !.ball = BallPhysics(@)])
        s7 == BallNet(BallWalls(s6))
        s8 == BallPlayer(s7, s7.player1, "player1")
        s9 == BallPlayer(s8, s8.player2, "player2")
    IN  BallGround(s9, in)

\* the block under "if (!pause)"
Simulate(s, in) ==
    LET s1 == [s EXCEPT !.matchTimer = @ + 1,
                        !.particles = UpdateParticles(@),
                        !.ev.simulated = TRUE,
                        !.sinceScore = IF @ >= 0 /\ @ <= SCORE_DELAY_FRAMES
                                       THEN @ + 1 ELSE @]
        s2 == UpdatePlayerControls(s1, in)
        s3 == IF s2.gameMode = "SINGLE_PLAYER" THEN UpdateAI(s2, in) ELSE s2
        s4 == [s3 EXCEPT !.player1 = PlayerPhysics(@), !.player2 = PlayerPhysics(@)]
        s5 == ScoreDelayTick(s4)
        s6 == TrailTick([s5 EXCEPT !.ball = BallPhysics(@)])
        s7 == BallNet(BallWalls(s6))
        s8 == BallPlayer(s7, s7.player1, "player1")
        s9 == BallPlayer(s8, s8.player2, "player2")
    IN  BallGround(s9, in)

---------------------------------------------------------------------------
(* UpdateGame: one frame.                                                  *)

\* case MENU
\* fault: down from the last entry stays on it
UpdateMenuDownStops(s, in) ==
    LET up == IF IsKeyPressed(in, "UP")
              THEN (IF s.menuSelection - 1 < 0 THEN 3 ELSE s.menuSelection - 1)
              ELSE s.menuSelection
        sel == IF IsKeyPressed(in, "DOWN")
               THEN (IF up + 1 > 3 THEN 3 ELSE up + 1)
               ELSE up
        s1 == [s EXCEPT !.menuSelection = sel]
    IN  IF ~IsKeyPressed(in, "ENTER") THEN s1
        ELSE IF sel = 0 \/ sel = 1
        THEN ResetBall([s1 EXCEPT !.gameMode = IF sel = 0 THEN "SINGLE_PLAYER"
                                                         ELSE "TWO_PLAYER",
                                  !.gameState = "PLAYING",
                                  !.player1.score = 0,
                                  !.player2.score = 0,
                                  !.matchTimer = 0])
        ELSE IF sel = 2
        THEN [s1 EXCEPT !.gameState = "CREDITS", !.creditsScroll = 768]
        ELSE [s1 EXCEPT !.shouldExitGame = TRUE]

\* case MENU
\* fault: starting a match leaves the match timer running
UpdateMenuKeepTimer(s, in) ==
    LET up == IF IsKeyPressed(in, "UP")
              THEN (IF s.menuSelection - 1 < 0 THEN 3 ELSE s.menuSelection - 1)
              ELSE s.menuSelection
        sel == IF IsKeyPressed(in, "DOWN")
               THEN (IF up + 1 > 3 THEN 0 ELSE up + 1)
               ELSE up
        s1 == [s EXCEPT !.menuSelection = sel]
    IN  IF ~IsKeyPressed(in, "ENTER") THEN s1
        ELSE IF sel = 0 \/ sel = 1
        THEN ResetBall([s1 EXCEPT !.gameMode = IF sel = 0 THEN "SINGLE_PLAYER"
                                                         ELSE "TWO_PLAYER",
                                  !.gameState = "PLAYING",
                                  !.player1.score = 0,
                                  !.player2.score = 0])
        ELSE IF sel = 2
        THEN [s1 EXCEPT !.gameState = "CREDITS", !.creditsScroll = 768]
        ELSE [s1 EXCEPT !.shouldExitGame = TRUE]

UpdateMenu(s, in) ==
    LET up == IF IsKeyPressed(in, "UP")
              THEN (IF s.menuSelection - 1 < 0 THEN 3 ELSE s.menuSelection - 1)
              ELSE s.menuSelection
        sel == IF IsKeyPressed(in, "DOWN")
               THEN (IF up + 1 > 3 THEN 0 ELSE up + 1)
               ELSE up
        s1 == [s EXCEPT !.menuSelection = sel]
    IN  IF ~IsKeyPressed(in, "ENTER") THEN s1
        ELSE IF sel = 0 \/ sel = 1
        THEN ResetBall([s1 EXCEPT !.gameMode = IF sel = 0 THEN "SINGLE_PLAYER"
                                                         ELSE "TWO_PLAYER",
                                  !.gameState = "PLAYING",
                                  !.player1.score = 0,
                                  !.player2.score = 0,
                                  !.matchTimer = 0])
        ELSE IF sel = 2
        THEN [s1 EXCEPT !.gameState = "CREDITS", !.creditsScroll = 768]
        ELSE [s1 EXCEPT !.shouldExitGame = TRUE]

\* fault: the match timer is advanced outside the pause guard
UpdatePlayingClockRuns(s, in) ==
    LET s1 == IF IsKeyPressed(in, "P") THEN [s EXCEPT !.pause = ~@] ELSE s
    IN  IF IsKeyPressed(in, "ESCAPE")
        THEN [s1 EXCEPT !.gameState = "MENU", !.menuSelection = 0]
        ELSE IF ~s1.pause THEN Simulate(s1, in)
        ELSE [s1 EXCEPT !.matchTimer = @ + 1]

\* fault: the cancel branch has no "break", the frame goes on to simulate
UpdatePlayingNoBreak(s, in) ==
    LET s1 == IF IsKeyPressed(in, "P") THEN [s EXCEPT !.pause = ~@] ELSE s
        s2 == IF IsKeyPressed(in, "ESCAPE")
              THEN [s1 EXCEPT !.gameState = "MENU", !.menuSelection = 0]
              ELSE s1
    IN  IF ~s2.pause THEN Simulate(s2, in) ELSE s2

\* case PLAYING
UpdatePlaying(s, in) ==
    LET s1 == IF IsKeyPressed(in, "P") THEN [s EXCEPT !.pause = ~@] ELSE s
    IN  IF IsKeyPressed(in, "ESCAPE")
        THEN [s1 EXCEPT !.gameState = "MENU", !.menuSelection = 0]
        ELSE IF ~s1.pause THEN Simulate(s1, in)
        ELSE s1

\* fault: the game-over screen also leaves on cancel
UpdateGameOverOnCancel(s, in) ==
    IF IsKeyPressed(in, "ENTER") \/ IsKeyPressed(in, "ESCAPE")
    THEN [s EXCEPT !.gameState = "MENU", !.menuSelection = 0,
                   !.player1.score = 0, !.player2.score = 0, !.matchTimer = 0]
    ELSE s

\* fault: leaving the game-over screen keeps the scores of the match
UpdateGameOverKeepScores(s, in) ==
    IF IsKeyPressed(in, "ENTER")
    THEN [s EXCEPT !.gameState = "MENU", !.menuSelection = 0, !.matchTimer = 0]
    ELSE s

\* case GAMEOVER
UpdateGameOver(s, in) ==
    IF IsKeyPressed(in, "ENTER")
    THEN [s EXCEPT !.gameState = "MENU", !.menuSelection = 0,
                   !.player1.score = 0, !.player2.score = 0, !.matchTimer = 0]
    ELSE s

\* case CREDITS
UpdateCredits(s, in) ==
    LET scroll == IF s.creditsScroll - 2 <= -800 THEN -800 ELSE s.creditsScroll - 2
        s1 == [s EXCEPT !.creditsScroll = scroll]
    IN  IF IsKeyPressed(in, "ENTER") \/ IsKeyPressed(in, "ESCAPE")
        THEN [s1 EXCEPT !.gameState = "MENU", !.menuSelection = 0]
        ELSE s1

UpdateGame(s, in) ==
    LET s0 == [s EXCEPT !.framesCounter = @ + 1,
                        !.ev = [NoEvents EXCEPT
                                  !.from = s.gameState,
                                  !.pushedBefore = IF s.ev.simulated
                                                   THEN s.ev.trailPushed
                                                   ELSE s.ev.pushedBefore,
                                  !.sinceAiJump = s.ev.sinceAiJump,
                                  !.jumpNo = s.ev.jumpNo]]
    IN  CASE s.gameState = "MENU" -> UpdateMenu(s0, in)
          [] s.gameState = "PLAYING" -> UpdatePlaying(s0, in)
          [] s.gameState = "GAMEOVER" -> UpdateGameOver(s0, in)
          [] s.gameState = "CREDITS" -> UpdateCredits(s0, in)

---------------------------------------------------------------------------
(* Inputs.                                                                 *)

\* the draws of one SpawnGroundParticles call when every particle gets `draw'
Spray(draw) == [i \in 1 .. 15 |-> draw]

Input(keys, roll, spray) == [keys |-> keys, roll |-> roll, spray |-> spray]

Keys(keys) == Input(keys, 100, Spray([angle |-> -90, speed |-> 2, flip |-> 1]))

KeySets ==
    {{}, {"A"}, {"D"}, {"W"}, {"LEFT"}, {"RIGHT"}, {"UP"}, {"DOWN"}, {"ENTER"},
     {"ESCAPE"}, {"P"}, {"UP", "DOWN"}, {"DOWN", "ENTER"}, {"UP", "ENTER"},
     {"P", "ESCAPE"}, {"A", "W"}, {"A", "RIGHT"}}

\* the inputs a frame may get once the keys are free
Inputs ==
    {Keys(K) : K \in KeySets}
        \cup {Input({}, 0, Spray([angle |-> -60, speed |-> 6, flip |-> 0]))}

---------------------------------------------------------------------------
(* The environment.  The keys follow a script and leave it at a branch     *)
(* frame, for at most MaxFree frames of free input.  The script is one     *)
(* two-player match: the first serve drops on player 1's head, then both   *)
(* players walk to their outer walls (frames 51..76) and let every serve   *)
(* drop, so the points alternate until player 2 wins 10:9.                 *)
MaxFree == 4

\* the script's last frame
ScriptEnd == 3268

Script(f) ==
    IF f = 0 THEN Keys({"DOWN", "ENTER"})
    ELSE IF f >= 51 /\ f <= 76 THEN Keys({"A", "RIGHT"})
    ELSE Keys({})

\* where the keys may leave the script: in the menu (0); two frames before
\* the first serve meets player 1 (49), before the first point of player 2
\* (132), before the first serve delay ends (252), before the first point
\* of player 1 (306) and before the last point of the match (3264)
BranchFrames == {0, 49, 132, 252, 306, 3264}

Allowed ==
    IF offScript = 0
    THEN (IF framesCounter < ScriptEnd THEN {Script(framesCounter)} ELSE {})
           \cup (IF framesCounter \in BranchFrames THEN Inputs ELSE {})
    ELSE IF offScript < MaxFree THEN Inputs ELSE {}

---------------------------------------------------------------------------
(* The state machine.                                                      *)
Cur == [gameState |-> gameState, gameMode |-> gameMode, pause |-> pause,
        framesCounter |-> framesCounter, player1 |-> player1,
        player2 |-> player2, ball |-> ball, particles |-> particles,
        aiJumpCooldown |-> aiJumpCooldown, servingSide |-> servingSide,
        scoreDelayTimer |-> scoreDelayTimer, menuSelection |-> menuSelection,
        creditsScroll |-> creditsScroll, shouldExitGame |-> shouldExitGame,
        matchTimer |-> matchTimer, ev |-> ev, sinceScore |-> sinceScore]

Becomes(n) ==
    /\ gameState' = n.gameState
    /\ gameMode' = n.gameMode
    /\ pause' = n.pause
    /\ framesCounter' = n.framesCounter
    /\ player1' = n.player1
    /\ player2' = n.player2
    /\ ball' = n.ball
    /\ particles' = n.particles
    /\ aiJumpCooldown' = n.aiJumpCooldown
    /\ servingSide' = n.servingSide
    /\ scoreDelayTimer' = n.scoreDelayTimer
    /\ menuSelection' = n.menuSelection
    /\ creditsScroll' = n.creditsScroll
    /\ shouldExitGame' = n.shouldExitGame
    /\ matchTimer' = n.matchTimer
    /\ ev' = n.ev
    /\ sinceScore' = n.sinceScore

\* the state main hands to its loop: InitGame has run
Init ==
    /\ gameState = InitGame.gameState
    /\ gameMode = InitGame.gameMode
    /\ pause = InitGame.pause
    /\ framesCounter = InitGame.framesCounter
    /\ player1 = InitGame.player1
    /\ player2 = InitGame.player2
    /\ ball = InitGame.ball
    /\ particles = InitGame.particles
    /\ aiJumpCooldown = InitGame.aiJumpCooldown
    /\ servingSide = InitGame.servingSide
    /\ scoreDelayTimer = InitGame.scoreDelayTimer
    /\ menuSelection = InitGame.menuSelection
    /\ creditsScroll = InitGame.creditsScroll
    /\ shouldExitGame = InitGame.shouldExitGame
    /\ matchTimer = InitGame.matchTimer
    /\ ev = NoEvents
    /\ sinceScore = InitGame.sinceScore
    /\ offScript = 0

\* one pass of main's loop "while (!WindowShouldClose() && !shouldExitGame)":
\* UpdateDrawFrame calls UpdateGame
\* fault: the loop does not look at the exit flag
FrameAfterExit(in) ==
    /\ \E n \in {UpdateGame(Cur, in)} : Becomes(n)
    /\ offScript' = IF offScript = 0 /\ framesCounter < ScriptEnd
                       /\ in = Script(framesCounter)
                    THEN 0 ELSE offScript + 1

Frame(in) ==
    /\ ~shouldExitGame
    /\ \E n \in {UpdateGame(Cur, in)} : Becomes(n)
    /\ offScript' = IF offScript = 0 /\ framesCounter < ScriptEnd
                       /\ in = Script(framesCounter)
                    THEN 0 ELSE offScript + 1

MenuFrame == gameState = "MENU" /\ \E in \in Allowed : Frame(in)

PlayingFrame == gameState = "PLAYING" /\ \E in \in Allowed : Frame(in)

GameOverFrame == gameState = "GAMEOVER" /\ \E in \in Allowed : Frame(in)

CreditsFrame == gameState = "CREDITS" /\ \E in \in Allowed : Frame(in)

Next == MenuFrame \/ PlayingFrame \/ GameOverFrame \/ CreditsFrame

Spec == Init /\ [][Next]_vars

---------------------------------------------------------------------------
(* Claims.                                                                 *)

\* the serve point ResetBall puts the ball at
SpawnPoint(side) ==
    IF side = "LEFT" THEN Vec(2560, 1000) ELSE Vec(7680, 1000)

\* C1: at the end of every frame player 1's centre x is in [50, 457] and
\* player 2's centre x is in [567, 974] (the clamp ranges of the two halves).
C1_SideContainment ==
    /\ player1.position.x >= 500 /\ player1.position.x <= 4570
    /\ player2.position.x >= 5670 /\ player2.position.x <= 9740

\* C2: in a simulated frame in which the ball reaches the ground while the
\* serve delay is 0, exactly one score goes up, by exactly 1: player 2's, with
\* the serve passing to RIGHT, when the ball's x is left of the net centre
\* line (x < 512), and player 1's, with the serve passing to LEFT, otherwise.
C2_ScoringRule ==
    [][(/\ ev'.simulated
        /\ "ground" \in ev'.hits
        /\ (IF scoreDelayTimer > 0 THEN scoreDelayTimer - 1 ELSE 0) = 0)
       => IF ball'.position.x < 5120
          THEN /\ player2'.score = player2.score + 1
               /\ player1'.score = player1.score
               /\ servingSide' = "RIGHT"
          ELSE /\ player1'.score = player1.score + 1
               /\ player2'.score = player2.score
               /\ servingSide' = "LEFT"]_vars

\* C2's case: player 2 has just scored its first point
C2_Witness ==
    /\ ev.scored = "RIGHT" /\ "ground" \in ev.hits
    /\ ball.position.x < 5120
    /\ player1.score = 0 /\ player2.score = 1 /\ servingSide = "RIGHT"

\* C3: the state is GAMEOVER exactly from the frame in which a score reaches
\* 10: while PLAYING both scores are below 10, GAMEOVER needs a score of at
\* least 10, and the frame that scores the 10th point ends in GAMEOVER with no
\* serve delay started and the ball not reset (it lies where it landed).
C3_WinDetection ==
    /\ gameState = "PLAYING" => player1.score < 10 /\ player2.score < 10
    /\ gameState = "GAMEOVER" => player1.score >= 10 \/ player2.score >= 10
    /\ (ev.scored # "NONE" /\ (player1.score >= 10 \/ player2.score >= 10))
          => /\ gameState = "GAMEOVER"
             /\ scoreDelayTimer = 0
             /\ ~ev.resetBall
             /\ ball.position.y = 7180 - 350

\* C3's case: the frame that scored the 10th point
C3_Witness ==
    /\ ev.from = "PLAYING" /\ gameState = "GAMEOVER"
    /\ ev.scored = "RIGHT" /\ player2.score = 10 /\ player1.score = 9

\* C4: both scores stay in 0..10, they are never both 10, and no frame raises
\* the sum of the scores by more than 1.
C4_ScoreBounds ==
    /\ [](/\ player1.score \in 0 .. 10
          /\ player2.score \in 0 .. 10
          /\ ~(player1.score = 10 /\ player2.score = 10))
    /\ [][player1'.score + player2'.score <= player1.score + player2.score + 1]_vars

\* C4's case: a point has been scored and both players stand at 9
C4_Witness ==
    /\ ev.scored = "LEFT" /\ player1.score = 9 /\ player2.score = 9

\* C5 as claimed: the 120th simulated frame after a point that did not end
\* the match leaves the ball at the serving side's spawn point with velocity
\* (0, 0), and no earlier simulated frame of the delay resets the ball.
C5_ServeResetZeroVelocity ==
    /\ (ev.simulated /\ sinceScore = 120)
          => /\ ball.position = SpawnPoint(servingSide)
             /\ ball.velocity = Vec(0, 0)
    /\ (ev.simulated /\ sinceScore \in 1 .. 119) => ~ev.resetBall

\* C5, amended: the 120th simulated frame after a point that did not end the
\* match leaves the ball at the serving side's spawn point with velocity
\* (0, 0.4): ResetBall zeroes the velocity and the same frame's ball physics
\* adds one step of gravity; no earlier simulated frame of the delay resets
\* the ball.
C5_ServeReset ==
    /\ (ev.simulated /\ sinceScore = 120)
          => /\ ev.resetBall
             /\ scoreDelayTimer = 0
             /\ ball.position = SpawnPoint(servingSide)
             /\ ball.velocity = Vec(0, 4)
    /\ (ev.simulated /\ sinceScore \in 1 .. 119)
          => ~ev.resetBall /\ scoreDelayTimer = 120 - sinceScore

\* C5's case: the delay has just run out after player 2's first point
C5_Witness ==
    /\ ev.simulated /\ sinceScore = 120 /\ ev.resetBall
    /\ servingSide = "RIGHT" /\ ball.position.x = 7680

\* C6: at the end of every frame the lowest point (centre y + radius) of both
\* players and of the ball is at or above the ground line, 718.
C6_GroundLine ==
    /\ player1.position.y + player1.radius <= 7180
    /\ player2.position.y + player2.radius <= 7180
    /\ ball.position.y + ball.radius <= 7180

\* C6's case: the ball has come down and lies on the ground line, and so
\* does a player who was pulled down by gravity in the same frame
C6_Witness ==
    /\ "ground" \in ev.hits
    /\ ball.position.y + ball.radius = 7180 /\ ball.velocity.y < 0
    /\ player1.onGround /\ player1.position.y + player1.radius = 7180

\* C7: at the end of a frame that resolved a collision of the ball (wall,
\* ceiling, net, a player or the ground) the ball's speed is at most 15.
C7_BallSpeedCap ==
    ev.hits # {}
       => ball.velocity.x * ball.velocity.x + ball.velocity.y * ball.velocity.y
            <= 150 * 150

C9_MatchStart ==
    gameState = "MENU" =>
      \A in \in Allowed :
        LET n == UpdateGame(Cur, in)
        IN  ("ENTER" \in in.keys /\ n.menuSelection \in {0, 1}) =>
              /\ n.gameState = "PLAYING"
              /\ n.gameMode = IF n.menuSelection = 0 THEN "SINGLE_PLAYER"
                                                     ELSE "TWO_PLAYER"
              /\ n.player1.score = 0 /\ n.player2.score = 0
              /\ n.matchTimer = 0
              /\ n.ball.position = SpawnPoint(servingSide)
              /\ n.ball.velocity = Vec(0, 0)
              /\ n.ball.trailCount = 0 /\ n.ball.rotation = 0
              /\ ~n.ev.simulated
              /\ n.player1.position = player1.position
              /\ n.player2.position = player2.position
              /\ n.player1.velocity = player1.velocity
              /\ n.player2.velocity = player2.velocity
              /\ n.particles = particles
              /\ n.servingSide = servingSide

\* C9's case: a match was played, left, and the menu is about to get its keys
C9_Witness ==
    /\ gameState = "MENU" /\ ev.from = "PLAYING" /\ Allowed # {}
    /\ matchTimer > 0 /\ player2.score = 1 /\ servingSide = "RIGHT"
    /\ ball.position # SpawnPoint(servingSide)

\* C10: a PLAYING frame without cancel that ends paused changes nothing but
\* the pause flag and the frame counter; and while paused the pause toggle
\* and the cancel key still act.
C10_PauseFreeze ==
    gameState = "PLAYING" =>
      \A in \in Allowed :
        LET n == UpdateGame(Cur, in)
        IN  /\ (n.pause /\ "ESCAPE" \notin in.keys) =>
                 /\ n.player1 = player1 /\ n.player2 = player2
                 /\ n.ball = ball /\ n.particles = particles
                 /\ n.servingSide = servingSide
                 /\ n.matchTimer = matchTimer
                 /\ n.scoreDelayTimer = scoreDelayTimer
                 /\ n.aiJumpCooldown = aiJumpCooldown
                 /\ n.gameState = gameState
                 /\ n.gameMode = gameMode
                 /\ n.menuSelection = menuSelection
                 /\ n.framesCounter = framesCounter + 1
            /\ (pause /\ "P" \in in.keys) => ~n.pause
            /\ (pause /\ "ESCAPE" \in in.keys) => n.gameState = "MENU"

\* C10's case: the match is paused while the ball is in the air, a particle
\* is alive and a serve delay runs, and the keys of the next frame are free
C10_Witness ==
    /\ gameState = "PLAYING" /\ pause /\ Allowed # {}
    /\ scoreDelayTimer > 0
    /\ \E i \in 0 .. 99 : particles[i].active

\* a frame has just taken the game from the menu into a match
MatchStarted == ev.from = "MENU" /\ gameState = "PLAYING"

\* C11: whenever a frame takes gameState from MENU to PLAYING the pause flag
\* is false, whatever path led into the menu.
C11_PauseCleared ==
    MatchStarted => ~pause

\* C12: whenever a frame takes gameState from MENU to PLAYING the serve delay
\* is 0, also after a match that was cancelled during its delay.
C12_DelayCleared ==
    MatchStarted => scoreDelayTimer = 0

\* C13: at every match start both players are at their spawn positions
\* (x = 256 and x = 768, resting on the ground at y = 668) with zero velocity
\* and zero score.
C13_PlayersRespawn ==
    MatchStarted =>
        /\ player1.position = Vec(2560, 6680) /\ player2.position = Vec(7680, 6680)
        /\ player1.velocity = Vec(0, 0) /\ player2.velocity = Vec(0, 0)
        /\ player1.onGround /\ player2.onGround
        /\ player1.score = 0 /\ player2.score = 0

\* what a cancel in PLAYING does, for every key set of the next frame that
\* holds the cancel key: the frame ends in MENU with menuSelection 0 and runs
\* no physics, AI, particle, match-timer or delay-timer update
CancelLeavesMatch ==
    gameState = "PLAYING" =>
      \A in \in Allowed :
        LET n == UpdateGame(Cur, in)
        IN  "ESCAPE" \in in.keys =>
              /\ n.gameState = "MENU" /\ n.menuSelection = 0
              /\ ~n.ev.simulated
              /\ n.player1 = player1 /\ n.player2 = player2
              /\ n.ball = ball /\ n.particles = particles
              /\ n.matchTimer = matchTimer
              /\ n.scoreDelayTimer = scoreDelayTimer
              /\ n.aiJumpCooldown = aiJumpCooldown
              /\ n.servingSide = servingSide

\* C14 as claimed: a cancel in PLAYING, paused or not, ends the frame in MENU
\* with menuSelection 0 and no simulation step, and both scores are 0 once
\* the menu has been reached.
C14_CancelClearsScores ==
    /\ CancelLeavesMatch
    /\ gameState = "MENU" => player1.score = 0 /\ player2.score = 0

\* C14, amended: a cancel in PLAYING, paused or not, ends the frame in MENU
\* with menuSelection 0 and no simulation step; the scores of the abandoned
\* match are left as they are by the cancel and by every frame that does not
\* leave the menu, and are set to 0 by the frame that starts the next match.
C14_CancelKeepsScores ==
    /\ CancelLeavesMatch
    /\ gameState = "MENU" =>
         \A in \in Allowed :
           LET n == UpdateGame(Cur, in)
           IN  IF n.gameState = "PLAYING"
               THEN n.player1.score = 0 /\ n.player2.score = 0
               ELSE /\ n.player1.score = player1.score
                    /\ n.player2.score = player2.score

\* C14's case: a paused match with a point on the board has been cancelled
\* and the menu is about to get its keys
C14_Witness ==
    /\ ev.from = "PLAYING" /\ gameState = "MENU" /\ menuSelection = 0
    /\ pause /\ player1.score + player2.score > 0 /\ Allowed # {}

\* C15: while the game is over exactly one score is 10, and for every key set
\* of the next frame: without confirm the frame leaves players, ball,
\* particles, scores, servingSide, the timers and the state as they are; with
\* confirm it ends in MENU with menuSelection 0, both scores 0 and
\* matchTimer 0.
C15_GameOverFrozen ==
    gameState = "GAMEOVER" =>
      /\ (player1.score = 10) # (player2.score = 10)
      /\ \A in \in Allowed :
           LET n == UpdateGame(Cur, in)
           IN  IF "ENTER" \in in.keys
               THEN /\ n.gameState = "MENU" /\ n.menuSelection = 0
                    /\ n.player1.score = 0 /\ n.player2.score = 0
                    /\ n.matchTimer = 0
               ELSE /\ n.gameState = "GAMEOVER"
                    /\ n.player1 = player1 /\ n.player2 = player2
                    /\ n.ball = ball /\ n.particles = particles
                    /\ n.servingSide = servingSide
                    /\ n.matchTimer = matchTimer
                    /\ n.scoreDelayTimer = scoreDelayTimer
                    /\ n.aiJumpCooldown = aiJumpCooldown
                    /\ n.pause = pause /\ n.gameMode = gameMode

\* C15's case: a frame has passed on the game-over screen, with the winner at
\* 10 and the particles of the last landing in the air, and the keys of the
\* next frame are free
C15_Witness ==
    /\ ev.from = "GAMEOVER" /\ gameState = "GAMEOVER" /\ Allowed # {}
    /\ player2.score = 10 /\ player1.score = 9 /\ matchTimer > 0
    /\ \E i \in 0 .. 99 : particles[i].active

---------------------------------------------------------------------------
(* The particle pool on its own: SpawnGroundParticles and UpdateParticles  *)
(* applied to the pool, with the rest of the game standing still.  One     *)
(* frame is one UpdateParticles call; emissions happen at the frames of    *)
(* EmitFrames, so that a pool with holes (the slow particles of an         *)
(* emission die first) gets a second emission.                             *)

\* the last frame at which the pool may get an emission
ParticleFrames == 24

EmitFrames == {0, 20, ParticleFrames}

\* the counts asked of SpawnGroundParticles (the game itself asks for 15)
EmitCounts == {15, 200}

\* draws of one call, in turn: a slow upright particle, a fast flat one and
\* a fast upright one (the draw that stays in the air longest)
MixedSpray ==
    [i \in 1 .. 15 |-> IF i % 3 = 1
                       THEN [angle |-> -90, speed |-> 2, flip |-> 1]
                       ELSE IF i % 3 = 2
                       THEN [angle |-> -60, speed |-> 6, flip |-> 0]
                       ELSE [angle |-> -90, speed |-> 6, flip |-> 1]]

ActiveSlots(ps) == {j \in 0 .. MAX_PARTICLES - 1 : ps[j].active}

AllButParticles ==
    <<gameState, gameMode, pause, player1, player2, ball, aiJumpCooldown,
      servingSide, scoreDelayTimer, menuSelection, creditsScroll,
      shouldExitGame, matchTimer, ev, sinceScore, offScript>>

\* one SpawnGroundParticles call in a frame that has had none yet
EmitParticles(count) ==
    /\ framesCounter \in EmitFrames
    /\ \A j \in ActiveSlots(particles) : particles[j].life < PARTICLE_LIFE
    /\ particles' = SpawnGroundParticles(particles, Vec(2560, GROUND_LEVEL),
                                         count, MixedSpray)
    /\ UNCHANGED <<framesCounter, AllButParticles>>

\* one UpdateParticles call: the next frame
AgeParticles ==
    /\ framesCounter < ParticleFrames \/ ActiveSlots(particles) # {}
    /\ particles' = UpdateParticles(particles)
    /\ framesCounter' = framesCounter + 1
    /\ UNCHANGED AllButParticles

NextParticles == (\E count \in EmitCounts : EmitParticles(count)) \/ AgeParticles

SpecParticles == Init /\ [][NextParticles]_vars

Min(a, b) == IF a < b THEN a ELSE b

\* what SpawnGroundParticles(position, count) does to the pool ps
EmitOK(ps, count) ==
    LET r == SpawnGroundParticles(ps, Vec(3000, GROUND_LEVEL), count, MixedSpray)
        was == ActiveSlots(ps)
        now == ActiveSlots(r)
        f == MAX_PARTICLES - Cardinality(was)
        all == 0 .. MAX_PARTICLES - 1
    IN  /\ DOMAIN r = all
        /\ was \subseteq now
        /\ Cardinality(now) = Cardinality(was) + Min(count, f)
        /\ \A j \in was : r[j] = ps[j]
        /\ \A j \in all \ now : r[j] = ps[j]
        /\ \A j \in now \ was :
              /\ r[j].position = Vec(3000, GROUND_LEVEL)
              /\ r[j].life = PARTICLE_LIFE
              /\ \A k \in all \ now : j < k

\* C16: SpawnGroundParticles(position, count) on a pool with f inactive slots
\* activates exactly min(count, f) slots, the lowest-index inactive ones,
\* leaves every active particle as it is and touches no slot outside 0..99;
\* the pool never holds more than 100 active particles.
C16_Emission ==
    /\ DOMAIN particles = 0 .. MAX_PARTICLES - 1
    /\ Cardinality(ActiveSlots(particles)) <= MAX_PARTICLES
    /\ \A count \in {0, 15, 200} : EmitOK(particles, count)

\* C16's case: an emission of 15 has gone into a pool with holes (the slow
\* particles of the first emission are gone): the new particles sit in the
\* lowest holes, between older particles, and higher holes are still free
C16_Witness ==
    /\ \E j, k \in ActiveSlots(particles) :
          /\ k < j
          /\ particles[k].life = PARTICLE_LIFE
          /\ particles[j].life < PARTICLE_LIFE
    /\ \E j \in ActiveSlots(particles), m \in 0 .. MAX_PARTICLES - 1 :
          /\ j < m /\ ~particles[m].active
          /\ particles[j].life = PARTICLE_LIFE
    /\ Cardinality(ActiveSlots(particles)) > 50

---------------------------------------------------------------------------
(* The AI on its own: single-player mode with the ball held where it is    *)
(* (zero velocity, fixed position).  One step is UpdateAI followed by the  *)
(* player physics of the same frame, for player 2.                         *)

\* player 2 starts at 567 + k * AiStartStep / 10 for k = 0 .. 10
AiStartStep == 407

AiStarts == {5670 + k * AiStartStep : k \in 0 .. 10}

\* where the ball is held: two places in the left half, one in the right
AiBallSpots == {Vec(1000, 3000), Vec(5000, 3000), Vec(9800, 3000)}

AllButAI ==
    <<gameState, gameMode, pause, framesCounter, player1, ball, particles,
      servingSide, scoreDelayTimer, menuSelection, creditsScroll,
      shouldExitGame, matchTimer, ev, sinceScore, offScript>>

InitAI ==
    /\ gameState = "PLAYING"
    /\ gameMode = "SINGLE_PLAYER"
    /\ pause = InitGame.pause
    /\ framesCounter = InitGame.framesCounter
    /\ player1 = InitGame.player1
    /\ \E x \in AiStarts : player2 = [InitGame.player2 EXCEPT !.position.x = x]
    /\ \E spot \in AiBallSpots : ball = [InitGame.ball EXCEPT !.position = spot]
    /\ particles = InitGame.particles
    /\ aiJumpCooldown = InitGame.aiJumpCooldown
    /\ servingSide = InitGame.servingSide
    /\ scoreDelayTimer = InitGame.scoreDelayTimer
    /\ menuSelection = InitGame.menuSelection
    /\ creditsScroll = InitGame.creditsScroll
    /\ shouldExitGame = InitGame.shouldExitGame
    /\ matchTimer = InitGame.matchTimer
    /\ ev = NoEvents
    /\ sinceScore = -1
    /\ offScript = 0

AiTick ==
    /\ gameState = "PLAYING" /\ gameMode = "SINGLE_PLAYER"
    /\ \E n \in {UpdateAI(Cur, Keys({}))} :
          /\ player2' = PlayerPhysics(n.player2)
          /\ aiJumpCooldown' = n.aiJumpCooldown
    /\ UNCHANGED AllButAI

NextAI == AiTick

\* the main loop runs a frame after a frame
SpecAI == InitAI /\ [][NextAI]_vars /\ WF_vars(AiTick)

\* player 2 is within the tolerance band of its half's midpoint and
\* publishes no horizontal velocity
AiAtMidpoint ==
    /\ Abs(player2.position.x - 7680) <= 200
    /\ player2.velocity.x = 0

\* the ball is more than 150 units away from player 2 already along one axis
AiBallFar ==
    \/ Abs(ball.position.x - player2.position.x) > 1500
    \/ Abs(ball.position.y - player2.position.y) > 1500

\* C17 as claimed: with the ball held more than 150 units away from player
\* 2, the AI reaches the band |x - 768| <= 20 after finitely many frames and
\* from then on stays in it with horizontal velocity 0.
C17_AiSettlesFarBall ==
    AiBallFar => <>[]AiAtMidpoint

\* C17, amended: with the ball held anywhere in the left half (x < 512) the
\* AI publishes horizontal velocity 0 in every frame, reaches the band
\* |x - 768| <= 20 after finitely many frames and from then on stays in it.
C17_AiSettlesLeftBall ==
    (ball.position.x < NET_X) => ([](player2.velocity.x = 0) /\ <>[]AiAtMidpoint)

\* C17's case: the AI has walked into the band from outside, the ball being
\* held in the left half
C17_Witness ==
    /\ gameMode = "SINGLE_PLAYER" /\ ball.position.x < NET_X
    /\ ball.velocity = Vec(0, 0)
    /\ AiAtMidpoint /\ player2.position.x \notin AiStarts

---------------------------------------------------------------------------
(* Claims C18 .. C20, on the game (Spec).                                  *)

\* the state with the match timer wiped
WithoutTimer(s) == [s EXCEPT !.matchTimer = 0]

\* C18: for every key set of the next frame, matchTimer goes up by exactly 1
\* in a PLAYING frame that is not paused and not cancelled, is set to 0 by the
\* frames MENU->PLAYING and GAMEOVER->MENU, and is unchanged by every other
\* frame; and the frame does the same to everything else whatever the value
\* of matchTimer is.
C18_MatchTimer ==
    \A in \in Allowed :
      LET n == UpdateGame(Cur, in)
      IN  /\ IF gameState = "PLAYING" /\ ~n.pause /\ "ESCAPE" \notin in.keys
             THEN n.matchTimer = matchTimer + 1
             ELSE IF \/ gameState = "MENU" /\ n.gameState = "PLAYING"
                     \/ gameState = "GAMEOVER" /\ n.gameState = "MENU"
             THEN n.matchTimer = 0
             ELSE n.matchTimer = matchTimer
          /\ \A t \in {0, matchTimer + 7} :
                WithoutTimer(UpdateGame([Cur EXCEPT !.matchTimer = t], in))
                    = WithoutTimer(n)

\* C18's case: a paused frame has passed in a match whose timer is running,
\* and the keys of the next frame are free
C18_Witness ==
    /\ ev.from = "PLAYING" /\ gameState = "PLAYING" /\ ~ev.simulated /\ pause
    /\ matchTimer > 100 /\ Allowed # {}

\* C19: a confirm in MENU with the selection at 3 sets the exit flag, and
\* nothing else does; no frame clears the flag; and the native main loop
\* runs no frame once the flag is set.
C19_Exit ==
    /\ [](\A in \in Allowed :
            LET n == UpdateGame(Cur, in)
            IN  (n.shouldExitGame /\ ~shouldExitGame)
                  <=> (/\ gameState = "MENU" /\ ~shouldExitGame
                       /\ "ENTER" \in in.keys /\ n.menuSelection = 3))
    /\ [](shouldExitGame => \A in \in Inputs : UpdateGame(Cur, in).shouldExitGame)
    /\ [][~shouldExitGame]_vars

\* C19's case: the exit entry of the menu has been confirmed
C19_Witness ==
    /\ shouldExitGame /\ gameState = "MENU" /\ menuSelection = 3
    /\ ev.from = "MENU"

\* C20: trailCount is always in 0 .. 3, and every frame keeps the trail in
\* push order: a reset (ResetBall) empties it; a push then puts the ball's
\* position at the time of the push at index 0, moves each kept entry one
\* index up, drops the entry at index 2 when the trail was full, and raises
\* trailCount by 1 up to 3; a frame without a push leaves the entries that
\* count.  So after k pushes since the last reset trailCount = min(k, 3) and
\* trail[i] is the position recorded by the (i+1)-th most recent push.
C20_TrailBuffer ==
    /\ [](ball.trailCount \in 0 .. TRAIL_LENGTH)
    /\ [][LET kept == IF ev'.resetBall THEN 0 ELSE ball.trailCount
              pushedAt == IF ev'.resetBall
                          THEN SpawnPoint(servingSide)
                          ELSE Vec(ball.position.x + ball.velocity.x,
                                   ball.position.y + ball.velocity.y)
          IN  IF ev'.trailPushed
              THEN /\ ball'.trailCount = IF kept < TRAIL_LENGTH THEN kept + 1
                                                               ELSE TRAIL_LENGTH
                   /\ ball'.trail[0] = pushedAt
                   /\ \A i \in 1 .. ball'.trailCount - 1 :
                         ball'.trail[i] = ball.trail[i - 1]
              ELSE /\ ball'.trailCount = kept
                   /\ \A i \in 0 .. kept - 1 : ball'.trail[i] = ball.trail[i]
        ]_vars

\* C20's case: a push into a full trail of a falling ball
C20_Witness ==
    /\ ev.trailPushed /\ ~ev.resetBall /\ ball.trailCount = 3
    /\ ball.trail[0].y > ball.trail[1].y /\ ball.trail[1].y > ball.trail[2].y
    /\ ball.velocity.y > 100

---------------------------------------------------------------------------
(* Claims C21 .. C24, on the game (Spec).                                  *)

\* C21: scoreDelayTimer is always in 0 .. 120; a simulated frame (PLAYING,
\* not paused, not cancelled) that starts with the timer positive lowers it
\* by exactly 1 and changes no score, not servingSide and not gameState, also
\* when the ball reaches the ground in it; every frame that is not simulated
\* leaves the timer as it is; and a simulated frame that starts with the
\* timer at 0 ends with it at 0 or, after a point that did not end the match,
\* at 120: so none of the 120 simulated frames after such a point scores.
C21_NoScoreInDelay ==
    /\ [](scoreDelayTimer \in 0 .. SCORE_DELAY_FRAMES)
    /\ []((ev.simulated /\ sinceScore \in 1 .. SCORE_DELAY_FRAMES)
             => ev.scored = "NONE")
    /\ [][IF ev'.simulated
          THEN IF scoreDelayTimer > 0
               THEN /\ scoreDelayTimer' = scoreDelayTimer - 1
                    /\ ev'.scored = "NONE"
                    /\ player1'.score = player1.score
                    /\ player2'.score = player2.score
                    /\ servingSide' = servingSide
                    /\ gameState' = gameState
               ELSE scoreDelayTimer' =
                        IF ev'.scored # "NONE" /\ gameState' = "PLAYING"
                        THEN SCORE_DELAY_FRAMES ELSE 0
          ELSE scoreDelayTimer' = scoreDelayTimer]_vars

\* C21's case: the ball has come down on the ground again while the serve
\* delay runs, and no point was given for it
C21_Witness ==
    /\ ev.simulated /\ "ground" \in ev.hits /\ ev.scored = "NONE"
    /\ scoreDelayTimer \in 1 .. SCORE_DELAY_FRAMES - 1
    /\ sinceScore > 1 /\ player2.score = 1 /\ player1.score = 0


\* C22: from the end of the frame that scored until the frame that resets
\* the ball, the ball's position does not change: a simulated frame that
\* starts inside the serve delay and does not reset the ball leaves
\* ball.position as it is, and no player contact is resolved in it.
C22_BallRestsInDelay ==
    [][(ev'.simulated /\ scoreDelayTimer > 0 /\ ~ev'.resetBall)
          => /\ ball'.position = ball.position
             /\ ev'.hits \cap {"player1", "player2"} = {}]_vars


\* C23: whenever a frame takes gameState to MENU from PLAYING (cancel) or
\* from GAMEOVER (confirm) the ball has been serve-reset: it is at the
\* serving side's spawn point with zero velocity, trailCount 0 and rotation
\* 0; and the ball is reset in no frame other than a match start, the end
\* of a serve delay and a return to the menu.
C23_BallResetOnMenu ==
    /\ (gameState = "MENU" /\ ev.from \in {"PLAYING", "GAMEOVER"})
          => /\ ball.position = SpawnPoint(servingSide)
             /\ ball.velocity = Vec(0, 0)
             /\ ball.trailCount = 0 /\ ball.rotation = 0
    /\ ev.resetBall
          => \/ MatchStarted
             \/ ev.simulated /\ sinceScore = SCORE_DELAY_FRAMES
             \/ gameState = "MENU" /\ ev.from \in {"PLAYING", "GAMEOVER"}


\* C24 as claimed: counting only the simulated frames, the trail is never
\* pushed in two simulated frames in a row, whatever pause toggles and menu
\* visits lie between them.
C24_NoPushOnConsecutiveTicks ==
    (ev.simulated /\ ev.trailPushed) => ~ev.pushedBefore

\* C24, amended: counting every frame (each UpdateGame call advances
\* framesCounter, simulated or not), the trail is pushed exactly in the
\* simulated frames whose framesCounter is even, so never in two frames in a
\* row.
C24_PushOnEvenFrames ==
    /\ [](ev.trailPushed <=> (ev.simulated /\ framesCounter % 2 = 0))
    /\ [][~(ev.trailPushed /\ ev'.trailPushed)]_vars

\* C24's case: two simulated frames in a row have both pushed the trail,
\* with a paused frame between them
C24_Witness ==
    /\ ev.simulated /\ ev.trailPushed /\ ev.pushedBefore
    /\ framesCounter % 2 = 0 /\ ball.trailCount >= 2


---------------------------------------------------------------------------
(* Claim C30, on the particle pool (SpecParticles).                        *)

\* C30: every particle an emission activates is inactive again after at most
\* 50 UpdateParticles calls (no active particle has seen 50 calls); after
\* every update an active particle has life > 0 and is not more than 20 units
\* below the ground line; and a slot, once freed, is taken again by the very
\* next emission that gets as far as it (an emission of 100 fills every free
\* slot).
C30_ParticleLifetime ==
    /\ \A j \in ActiveSlots(particles) :
          /\ particles[j].age < 50
          /\ particles[j].life > 0
          /\ particles[j].position.y <= GROUND_LEVEL + 200
    /\ LET r == SpawnGroundParticles(particles, Vec(2560, GROUND_LEVEL),
                                     MAX_PARTICLES, MixedSpray)
       IN  /\ ActiveSlots(r) = 0 .. MAX_PARTICLES - 1
           /\ \A j \in 0 .. MAX_PARTICLES - 1 :
                 ~particles[j].active => r[j].age = 0

\* C30's case: the longest-lived particles of the first emission have just
\* been switched off, at their 43rd update, and a lower slot, which that
\* emission had filled too, holds a particle of a later emission
C30_Witness ==
    /\ framesCounter = 43
    /\ \E j, k \in 0 .. MAX_PARTICLES - 1 :
          /\ j < k
          /\ particles[j].active /\ particles[j].age < 43
          /\ ~particles[k].active /\ particles[k].age = 43


---------------------------------------------------------------------------
(* A rally at the net: a two-player match from the menu on, in which       *)
(* player 2 walks to the net and stays there, and player 1 is free to      *)
(* stand, walk left or walk right until the first serve has come down on   *)
(* it, and from then on walks toward the net.                              *)

\* the frames in which player 1's keys are free
RallyFree == 52

\* the last frame of the rally
RallyFrames == 110

RallyInputs(f) ==
    IF f = 0 THEN {Keys({"DOWN", "ENTER"})}
    ELSE IF f < RallyFree
    THEN {Keys({"LEFT"}), Keys({"A", "LEFT"}), Keys({"D", "LEFT"})}
    ELSE {Keys({"D", "LEFT"})}

\* one pass of main's loop
RallyFrame ==
    /\ ~shouldExitGame
    /\ framesCounter < RallyFrames
    /\ \E in \in RallyInputs(framesCounter) :
          \E n \in {UpdateGame(Cur, in)} : Becomes(n)
    /\ UNCHANGED offScript

NextRally == RallyFrame

SpecRally == Init /\ [][NextRally]_vars

\* the ball's circle reaches into the net rectangle: the point of the
\* rectangle nearest to the ball's centre is less than a radius away
InsideNet(b) ==
    LET right == netRect.x + netRect.width
        bottom == netRect.y + netRect.height
        nx == IF b.position.x < netRect.x THEN netRect.x
              ELSE IF b.position.x > right THEN right ELSE b.position.x
        ny == IF b.position.y < netRect.y THEN netRect.y
              ELSE IF b.position.y > bottom THEN bottom ELSE b.position.y
        dx == b.position.x - nx
        dy == b.position.y - ny
    IN  dx * dx + dy * dy < b.radius * b.radius

\* C26: at the end of every simulated frame the ball's circle does not reach
\* into the net rectangle (x in [507, 517], y in [578, 718]).
C26_BallOutsideNet ==
    ev.simulated => ~InsideNet(ball)


\* the ball lies at the push-out distance (the two radii) from p's centre,
\* up to half a unit for the rounding of the length and of the unit normal
OnCircle(b, p) ==
    LET dx == b.position.x - p.position.x
        dy == b.position.y - p.position.y
        reach == p.radius + b.radius
    IN  /\ dx * dx + dy * dy >= (reach - 5) * (reach - 5)
        /\ dx * dx + dy * dy <= (reach + 5) * (reach + 5)

\* the ball's centre is nearer to p's centre than the push-out distance
Overlaps(b, p) ==
    LET dx == b.position.x - p.position.x
        dy == b.position.y - p.position.y
        reach == p.radius + b.radius
    IN  dx * dx + dy * dy < (reach - 5) * (reach - 5)

\* C25: the collisions of a simulated frame are resolved in the order walls
\* and ceiling, net, player 1, player 2, ground, each on the ball the one
\* before left.  What the end of the frame shows of it: after a contact with
\* player 2 the ball lies on player 2's circle, also when player 1 or the
\* net pushed it in the same frame; after a contact with player 1 alone it
\* lies on player 1's circle, also when the net or a wall pushed it before;
\* after a net contact without a player contact it lies against the net's
\* side; player 2's check is the last of the two, so outside the serve
\* delay the ball never ends a frame overlapping player 2 (it may end one
\* overlapping player 1, pushed there by player 2); a ground contact comes
\* last of all, so the ball ends on the ground line whatever a player's
\* push-out did, and the point goes by the ball's x after the push-outs of
\* the frame.
C25_CollisionOrder ==
    LET last == IF "player2" \in ev.hits THEN player2 ELSE player1
    IN  /\ (ev.hits \cap {"player1", "player2"} # {})
              => IF "ground" \in ev.hits
                 THEN Abs(ball.position.x - last.position.x)
                          <= last.radius + ball.radius + 5
                 ELSE OnCircle(ball, last)
        /\ ("net" \in ev.hits /\ ev.hits \cap {"player1", "player2"} = {})
              => ball.position.x \in {netRect.x - ball.radius,
                                      netRect.x + netRect.width + ball.radius}
        /\ (ev.simulated /\ scoreDelayTimer = 0 /\ "ground" \notin ev.hits)
              => ~Overlaps(ball, player2)
        /\ "ground" \in ev.hits
              => ball.position.y = GROUND_LEVEL - ball.radius
        /\ ev.scored # "NONE"
              => /\ "ground" \in ev.hits
                 /\ (ev.scored = "RIGHT") <=> (ball.position.x < NET_X)

\* C25's case: the net, player 1 and player 2 have all pushed the ball in one
\* frame, and the ball lies on player 2's circle, pushed back into player 1's
C25_Witness ==
    /\ ev.simulated /\ {"net", "player1", "player2"} \subseteq ev.hits
    /\ OnCircle(ball, player2) /\ Overlaps(ball, player1)


---------------------------------------------------------------------------
(* Claim C27, on the game (Spec).                                          *)

\* the keys of player 2
Player2Keys == {"LEFT", "RIGHT", "UP"}

\* where a player is and how it moves (all of a player but its score)
Motion(p) == [position |-> p.position, velocity |-> p.velocity,
              onGround |-> p.onGround]

\* C27: for every key set of the next PLAYING frame: in SINGLE_PLAYER mode
\* the frame does the same whichever of player 2's keys are down, and leaves
\* player 2 where UpdateAI and the player physics put it; in TWO_PLAYER mode
\* it leaves aiJumpCooldown as it is, starts no AI jump, and leaves player 2
\* where its own keys (move, jump, side clamp) and the player physics put it.
C27_OneController ==
    gameState = "PLAYING" =>
      \A in \in Allowed :
        LET n == UpdateGame(Cur, in)
            bare == [in EXCEPT !.keys = @ \ Player2Keys]
        IN  IF gameMode = "SINGLE_PLAYER"
            THEN /\ \A K \in SUBSET Player2Keys :
                       UpdateGame(Cur, [bare EXCEPT !.keys = @ \cup K])
                           = UpdateGame(Cur, bare)
                 /\ n.ev.simulated
                       => Motion(n.player2)
                            = Motion(PlayerPhysics(UpdateAI(Cur, in).player2))
            ELSE /\ n.aiJumpCooldown = aiJumpCooldown
                 /\ ~n.ev.aiJumped
                 /\ n.ev.simulated
                       => Motion(n.player2) =
                            Motion(PlayerPhysics(ClampRightSide(JumpPlayer(
                                MovePlayer(player2, "LEFT" \in in.keys,
                                           "RIGHT" \in in.keys),
                                "UP" \in in.keys))))

\* C27's case: a frame of a single-player match has been simulated and the
\* keys of the next frame are free, player 2's among them
C27_Witness ==
    /\ gameState = "PLAYING" /\ gameMode = "SINGLE_PLAYER" /\ ev.simulated
    /\ \E in \in Allowed : in.keys \cap Player2Keys # {}


---------------------------------------------------------------------------
(* A single-player match from the menu on: player 1 is free to stand, walk *)
(* left or walk right until the first serve has come down on it and stands *)
(* still from then on; the AI plays player 2.  Its jump roll succeeds,     *)
(* except that in every tenth frame it may also fail.                      *)

\* the frames in which player 1's keys are free
SoloFree == 52

\* the last frame of the match
SoloFrames == 260

\* an input whose jump roll fails (GetRandomValue(0, 100) returns 0)
Miss(keys) == [Keys(keys) EXCEPT !.roll = 0]

SoloInputs(f) ==
    IF f = 0 THEN {Keys({"ENTER"})}
    ELSE IF f < SoloFree THEN {Keys({}), Keys({"A"}), Keys({"D"})}
    ELSE IF f % 10 = 0 THEN {Keys({}), Miss({})}
    ELSE {Keys({})}

\* one pass of main's loop
SoloFrame ==
    /\ ~shouldExitGame
    /\ framesCounter < SoloFrames
    /\ \E in \in SoloInputs(framesCounter) :
          \E n \in {UpdateGame(Cur, in)} : Becomes(n)
    /\ UNCHANGED offScript

NextSolo == SoloFrame

SpecSolo == Init /\ [][NextSolo]_vars


\* C28: aiJumpCooldown is always in 0 .. 30; a frame in which the AI starts
\* a jump began with player 2 on the ground and with a cooldown that the
\* frame's decrement takes to 0, and it ends with the cooldown at 30; every
\* other simulated single-player frame only applies the decrement, and no
\* other frame touches the cooldown; so a jump start is the first of all or
\* comes at least 30 UpdateAI calls after the one before it.
C28_AiJumpCooldown ==
    /\ [](aiJumpCooldown \in 0 .. AI_JUMP_COOLDOWN)
    /\ [](ev.aiJumped => (ev.jumpGap = 0 \/ ev.jumpGap >= AI_JUMP_COOLDOWN))
    /\ [][/\ ev'.aiJumped
                => /\ AiCooldownTick(aiJumpCooldown) = 0
                   /\ player2.onGround /\ ~player2'.onGround
                   /\ ev'.simulated /\ gameMode = "SINGLE_PLAYER"
          /\ aiJumpCooldown' =
                IF ev'.aiJumped THEN AI_JUMP_COOLDOWN
                ELSE IF ev'.simulated /\ gameMode = "SINGLE_PLAYER"
                THEN AiCooldownTick(aiJumpCooldown)
                ELSE aiJumpCooldown]_vars

\* C28's case: the AI has started a jump in the first frame the cooldown of
\* its last jump allowed, 30 UpdateAI calls after that jump
C28_Witness ==
    /\ ev.aiJumped /\ ev.jumpGap = AI_JUMP_COOLDOWN
    /\ aiJumpCooldown = AI_JUMP_COOLDOWN /\ ~player2.onGround


\* C29: in a simulated single-player frame that starts with the ball
\* approaching, player 2's x changes over the whole frame by exactly 3.2
\* (80% of PLAYER_MOVE_SPEED) toward the ball when the ball's x is more than
\* 20 away from player 2's, and not at all when it is within 20; unless the
\* side clamp [567, 974] stands in the way.
C29_AiApproachSpeed ==
    [][(ev'.simulated /\ gameMode = "SINGLE_PLAYER" /\ BallComingToward(ball))
          => LET x == player2.position.x
                 distanceX == ball.position.x - x
                 want == IF distanceX > AI_POSITION_TOLERANCE THEN x + 32
                         ELSE IF distanceX < -AI_POSITION_TOLERANCE THEN x - 32
                         ELSE x
             IN  (want >= 5670 /\ want <= 9740)
                     => player2'.position.x = want]_vars



---------------------------------------------------------------------------
(* Jumps.  One match in either mode (ENTER or DOWN+ENTER in the menu).     *)
(* Player 1 walks to the left wall and back (A in frames 3..29, D in       *)
(* frames 30..51), which sends the first serve over the net, to player 2.  *)
(* The jump keys W and UP are free in frames 1..JumpFree and again around  *)
(* the frames in which a jump of those frames lands: a jump started in     *)
(* frame f, 12.0 up with 0.8 of gravity per frame, is back on the ground   *)
(* at the end of frame f + 30.                                             *)

\* the frames 1 .. JumpFree in which the jump keys are free for the first time
JumpFree == 3

\* the last frame of the match
JumpFrames == 115

Walk(f) == IF f >= 3 /\ f <= 29 THEN {"A"}
           ELSE IF f >= 30 /\ f <= 51 THEN {"D"}
           ELSE {}

JumpKeys(f) ==
    IF (f >= 1 /\ f <= JumpFree) \/ (f >= 30 /\ f <= 33 + JumpFree)
    THEN {{}, {"W"}, {"UP"}, {"W", "UP"}}
    ELSE {{}}

JumpInputs(f) ==
    IF f = 0 THEN {Keys({"ENTER"}), Keys({"DOWN", "ENTER"})}
    ELSE {Keys(Walk(f) \cup J) : J \in JumpKeys(f)}

\* one pass of main's loop
JumpFrame ==
    /\ ~shouldExitGame
    /\ framesCounter < JumpFrames
    /\ \E in \in JumpInputs(framesCounter) :
          \E n \in {UpdateGame(Cur, in)} : Becomes(n)
    /\ UNCHANGED offScript

NextJump == JumpFrame

SpecJump == Init /\ [][NextJump]_vars

\* the player rests on the ground line
Resting(p) == p.position.y + p.radius = GROUND_LEVEL /\ p.velocity.y = 0



\* C31: no mid-air jump.  At the end of every simulated frame a player's
\* onGround flag is set exactly when the player rests on the ground line
\* (y + radius = GROUND_LEVEL) with vertical velocity 0.  A frame in which a
\* player starts a jump, by the jump key or by the AI's decision, began with
\* that player in the resting state, and ends with the player off the
\* ground, moving up with the jump velocity less one frame of gravity.  In
\* any other frame a player's vertical velocity does not turn upward or grow
\* upward.  So a player who starts a second jump has landed since the first.
C31_NoMidAirJump ==
    [][ev'.simulated
          => /\ player1'.onGround <=> Resting(player1')
             /\ player2'.onGround <=> Resting(player2')
             /\ "player1" \in ev'.jumped
                   => /\ player1.onGround /\ Resting(player1)
                      /\ ~player1'.onGround
                      /\ player1'.velocity.y = PLAYER_JUMP_FORCE + PLAYER_GRAVITY
             /\ "player2" \in ev'.jumped
                   => /\ player2.onGround /\ Resting(player2)
                      /\ ~player2'.onGround /\ gameMode = "TWO_PLAYER"
                      /\ player2'.velocity.y = PLAYER_JUMP_FORCE + PLAYER_GRAVITY
             /\ ev'.aiJumped
                   => /\ player2.onGround /\ Resting(player2)
                      /\ ~player2'.onGround /\ gameMode = "SINGLE_PLAYER"
                      /\ player2'.velocity.y = (PLAYER_JUMP_FORCE * 9) \div 10 + PLAYER_GRAVITY
             /\ "player1" \notin ev'.jumped
                   => (player1'.velocity.y >= player1.velocity.y
                          \/ player1'.velocity.y = 0)
             /\ ("player2" \notin ev'.jumped /\ ~ev'.aiJumped)
                   => (player2'.velocity.y >= player2.velocity.y
                          \/ player2'.velocity.y = 0)]_vars

\* C31's case: player 1, back on the ground after a first jump, has just
\* started a second one, while player 2 is in the air in its first jump
C31_Witness ==
    /\ "player1" \in ev.jumped /\ ev.jumpNo.player1 = 2
    /\ ~player1.onGround /\ player1.velocity.y = PLAYER_JUMP_FORCE + PLAYER_GRAVITY
    /\ ev.jumpNo.player2 = 1 /\ ~player2.onGround



\* C32: menuSelection is always in 0 .. 3.  A MENU frame applies UP first
\* (one entry up, from 0 to 3) and then DOWN (one entry down, from 3 to 0),
\* so with both keys the selection ends where it was, from 0 by way of the
\* two wraps; a confirm in the same frame acts on the selection after the
\* navigation (0: single-player match, 1: two-player match, 2: credits,
\* 3: exit).  A frame that enters MENU from another screen leaves the
\* selection at 0.  All this whatever the keys of the next frame are.
C32_MenuSelection ==
    /\ menuSelection \in 0 .. 3
    /\ \A in \in Allowed :
          LET n == UpdateGame(Cur, in)
              afterUp == IF "UP" \in in.keys
                         THEN (IF menuSelection = 0 THEN 3 ELSE menuSelection - 1)
                         ELSE menuSelection
              afterDown == IF "DOWN" \in in.keys
                           THEN (IF afterUp = 3 THEN 0 ELSE afterUp + 1)
                           ELSE afterUp
          IN  /\ gameState = "MENU" =>
                   /\ n.menuSelection = afterDown
                   /\ ({"UP", "DOWN"} \subseteq in.keys => n.menuSelection = menuSelection)
                   /\ "ENTER" \in in.keys =>
                        /\ afterDown = 0 => (n.gameState = "PLAYING"
                                               /\ n.gameMode = "SINGLE_PLAYER")
                        /\ afterDown = 1 => (n.gameState = "PLAYING"
                                               /\ n.gameMode = "TWO_PLAYER")
                        /\ afterDown = 2 => n.gameState = "CREDITS"
                        /\ afterDown = 3 => (n.gameState = "MENU"
                                               /\ n.shouldExitGame)
                   /\ "ENTER" \notin in.keys =>
                        (n.gameState = "MENU" /\ n.shouldExitGame = shouldExitGame)
              /\ (gameState # "MENU" /\ n.gameState = "MENU") => n.menuSelection = 0

\* C32's case: the first frame's UP has wrapped the selection from 0 to 3,
\* and the keys of the next frame are free (DOWN wraps it back to 0)
C32_Witness ==
    /\ gameState = "MENU" /\ ev.from = "MENU" /\ framesCounter = 1
    /\ menuSelection = 3 /\ Allowed # {}


===========================================================================
